---- MODULE Spec2Model ----
(***************************************************************************)
(* Model of deck_of_cards::Deck (src/src/Deck.cpp, src/include/Deck.hpp).  *)
(*                                                                         *)
(* The deck is a pair of vectors of card handles: m_cards (the live deck,  *)
(* shuffled in place and popped from the back) and m_original_cards (the   *)
(* construction order, copied back by reset()).  A 1-based TLA+ sequence   *)
(* s models a vector v with v[k] = s[k + 1].  A shared_ptr<Card> is        *)
(* modelled by the card it points to: the constructor makes exactly one    *)
(* Card object per (suit, value) pair and Card is neither copyable nor     *)
(* movable, so pointer identity and the pair coincide.                     *)
(*                                                                         *)
(* The deck is scaled down: it holds the first two suits (Club, Diamond)   *)
(* and the first NumValues values of each, so DeckSize stands for the 52   *)
(* of the program; size_t is SizeWidth bits wide; rand() returns a value   *)
(* in 0..RandMax, where RandMax is 2^RandBits - 1 and above every index    *)
(* of the deck, as RAND_MAX is (32767 or 2147483647 in the C libraries).   *)
(***************************************************************************)
EXTENDS Integers, Sequences, FiniteSets, TLC

\* ---- bounds ------------------------------------------------------------
NumValues == 2       \* values per suit (13 in the program)
RandBits == 3        \* bits of a value of rand() (15 or 31 in the C libraries)
SizeWidth == 8       \* bits of size_t
MaxNullDeals == 2    \* deal_card() calls explored on an empty deck
MaxResetRun == 2     \* consecutive reset() calls told apart
MaxDecks == 2        \* Deck objects constructed in one process
NumObjects == 2      \* Card objects constructed with the same suit and value

\* ---- enumerations ------------------------------------------------------
Club == 0            \* Suit::Club
Diamond == 1         \* Suit::Diamond
Ace == 1             \* Value::Ace, the following values count up from it

\* the initializer list Suits, in its order (its first two elements)
Suits == << Club, Diamond >>

\* Suits.size()
NumSuits == Len(Suits)

\* the initializer list Values, in its order
Values == [k \in 1..NumValues |-> Ace + (k - 1)]

\* Card::Card(suit, value)
Card(suit, value) == [m_suit |-> suit, m_value |-> value]

DeckSize == NumSuits * NumValues

\* RAND_MAX, the largest value rand() returns
RandMax == (2 ^ RandBits) - 1

\* size_t arithmetic is modulo 2^SizeWidth
SizeMod == 2 ^ SizeWidth

\* a null shared_ptr; a non-null one is the one-element sequence Ptr(card)
nullptr == << >>
Ptr(card) == << card >>

\* ---- Deck::Deck --------------------------------------------------------
\* off by one in the inner loop: the last value of every suit is left out
BuildDeck_MissesLastValue ==
  [k \in 1..(NumSuits * (NumValues - 1)) |->
     Card(Suits[((k - 1) \div (NumValues - 1)) + 1],
          Values[((k - 1) % (NumValues - 1)) + 1])]

\* the two loops nested the other way round: values outer, suits inner
BuildDeck_ValuesOuter ==
  [k \in 1..(NumSuits * NumValues) |->
     Card(Suits[((k - 1) % NumSuits) + 1], Values[((k - 1) \div NumSuits) + 1])]

\* the nested loops: suits outer, values inner, push_back of each card
BuildDeck ==
  [k \in 1..(NumSuits * NumValues) |->
     Card(Suits[((k - 1) \div NumValues) + 1], Values[((k - 1) % NumValues) + 1])]

\* ---- Deck::shuffle -----------------------------------------------------
\* size_t i = m_cards.size() - 1, in unsigned arithmetic
LoopStart(n) == (n - 1) % SizeMod

\* the divisor i + 1 of the loop body, in unsigned arithmetic
Modulus(i) == (i + 1) % SizeMod

\* rand() % i, which never leaves the element at i in place
RandIndex_Sattolo(r, i) == r % i

\* int j = rand() % (i + 1), for a non-zero divisor
RandIndex(r, i) == r % Modulus(i)

\* both iterators of the swap point into the vector of n elements
InRange(i, j, n) == 0 <= j /\ j <= i /\ i <= n - 1

\* an assignment instead of a swap: *(begin() + i) = *(begin() + j)
IterSwap_Overwrite(cards, i, j) ==
  [k \in 1..Len(cards) |-> IF k = i + 1 THEN cards[j + 1] ELSE cards[k]]

\* std::iter_swap(begin() + i, begin() + j) on in-range positions
IterSwap(cards, i, j) ==
  [k \in 1..Len(cards) |->
     IF k = i + 1 THEN cards[j + 1]
     ELSE IF k = j + 1 THEN cards[i + 1]
     ELSE cards[k]]

\* the values j can take in the iteration at index i (non-zero divisor),
\* rand() returning any value in 0..RandMax
Indices(i) == {RandIndex(r, i) : r \in 0..RandMax}

\* The for loop from index i down: the set of its possible outcomes, one per
\* sequence of indices the rand() calls can produce.
\* fault: "none" when the loop runs to its end, "divzero" when the divisor
\* is zero, "oob" when an iterator of the swap leaves the vector.  inRange:
\* every swap of the run had 0 <= j <= i <= size - 1.
RECURSIVE ShuffleLoop(_, _)
ShuffleLoop(cards, i) ==
  IF ~(i > 0)
  THEN {[cards |-> cards, fault |-> "none", inRange |-> TRUE]}
  ELSE IF Modulus(i) = 0
  THEN {[cards |-> cards, fault |-> "divzero", inRange |-> FALSE]}
  ELSE UNION {IF ~InRange(i, j, Len(cards))
              THEN {[cards |-> cards, fault |-> "oob", inRange |-> FALSE]}
              ELSE ShuffleLoop(IterSwap(cards, i, j), i - 1) : j \in Indices(i)}

\* What undefined behaviour in the loop does to the process: the integer
\* division by zero traps (SIGFPE), or it does not trap and the swap then
\* dereferences iterators outside the vector (SIGSEGV).  Neither returns.
FaultOutcomes(fault) ==
  IF fault = "divzero" THEN {"sigfpe", "sigsegv"} ELSE {"sigsegv"}

\* ---- Deck::deal_card ---------------------------------------------------
\* m_cards.front() taken for m_cards.back()
Back_Front(cards) == cards[1]

\* m_cards.back()
Back(cards) == cards[Len(cards)]

\* m_cards.erase(m_cards.begin()) taken for m_cards.pop_back()
PopBack_EraseFront(cards) == SubSeq(cards, 2, Len(cards))

\* m_cards.pop_back() called twice
PopBack_Twice(cards) == SubSeq(cards, 1, Len(cards) - 2)

\* m_cards.pop_back()
PopBack(cards) == SubSeq(cards, 1, Len(cards) - 1)

\* ---- Card, CardHash, CardEqual -----------------------------------------
Heart == 2           \* Suit::Heart
Spade == 3           \* Suit::Spade
King == 13           \* Value::King

\* enum class Suit
SuitEnum == Club..Spade

\* enum class Value
ValueEnum == Ace..King

\* a shared_ptr<Card> to the obj-th Card object constructed as Card(suit, value)
Handle(obj, card) == [obj |-> obj, card |-> card]

\* the handles of all Card objects of the comparisons
Handles ==
  {Handle(o, Card(su, va)) : o \in 1..NumObjects, su \in SuitEnum, va \in ValueEnum}

\* Card::operator==
operator_eq(this, other) ==
  this.m_suit = other.m_suit /\ this.m_value = other.m_value

\* a comparison of the two pointers instead of the two cards: lhs == rhs
CardEqual_ComparesPointers(lhs, rhs) == lhs = rhs

\* CardEqual::operator(): *lhs == *rhs
CardEqual(lhs, rhs) == operator_eq(lhs.card, rhs.card)

\* std::hash<int>, the identity in libstdc++ and libc++
StdHashInt(x) == x

\* operator ^ on non-negative integers
RECURSIVE BitXor(_, _)
BitXor(a, b) ==
  IF a = 0 /\ b = 0 THEN 0
  ELSE ((a + b) % 2) + 2 * BitXor(a \div 2, b \div 2)

\* CardHash::operator()
CardHash(card) ==
  BitXor(StdHashInt(card.card.m_suit), StdHashInt(card.card.m_value))

\* two handles a caller holds and has not compared yet
Pending(lhs, rhs) ==
  [lhs |-> lhs, rhs |-> rhs, done |-> FALSE,
   op_equal |-> FALSE, handle_equal |-> FALSE, hash_lhs |-> 0, hash_rhs |-> 0]

\* what a caller sees when it compares and hashes two handles
Compare(lhs, rhs) ==
  [lhs |-> lhs, rhs |-> rhs, done |-> TRUE,
   op_equal |-> operator_eq(lhs.card, rhs.card),
   handle_equal |-> CardEqual(lhs, rhs),
   hash_lhs |-> CardHash(lhs), hash_rhs |-> CardHash(rhs)]

\* ---- state -------------------------------------------------------------
VARIABLES
  m_cards,            \* Deck::m_cards
  m_original_cards,   \* Deck::m_original_cards
  status,             \* "running", or the signal that ended the process
  op,                 \* the latest call: construct, shuffle, deal, reset
  resetRun,           \* reset() calls made in a row just now, up to MaxResetRun
  ret,                \* what the latest call returned (nullptr for void)
  dealt,              \* cards dealt since construction or the latest reset
  nulls,              \* deals that returned nullptr since then
  epoch,              \* "constructed" until the first reset, then "reset"
  shuffled,           \* a shuffle ran since construction or the latest reset
  swapsInRange,       \* every swap of the latest shuffle was in range
  decks,              \* Deck objects constructed in the process so far
  srand_calls,        \* calls of srand() in the process so far
  cmp                 \* two card handles of a caller and their comparison

\* the state of the Deck object the model follows, with its history
deckVars == << m_cards, m_original_cards, status, op, resetRun, ret, dealt,
               nulls, epoch, shuffled, swapsInRange >>

\* the process-wide generator
procVars == << decks, srand_calls >>

vars == << m_cards, m_original_cards, status, op, resetRun, ret, dealt, nulls,
           epoch, shuffled, swapsInRange, decks, srand_calls, cmp >>

\* Deck::num_cards
num_cards == Len(m_cards)

\* the state Deck::Deck leaves
DeckInit ==
  /\ m_cards = BuildDeck
  /\ m_original_cards = BuildDeck
  /\ status = "running"
  /\ op = "construct"
  /\ resetRun = 0
  /\ ret = nullptr
  /\ dealt = << >>
  /\ nulls = 0
  /\ epoch = "constructed"
  /\ shuffled = FALSE
  /\ swapsInRange = TRUE
  /\ decks = 1
  /\ srand_calls = 1

\* a constructed deck; the caller's handles are not compared in Spec
Init ==
  /\ DeckInit
  /\ cmp = Pending(Handle(1, Card(Club, Ace)), Handle(1, Card(Club, Ace)))

\* shuffle that starts from the full deck: it shuffles a copy of
\* m_original_cards into m_cards
shuffle_FullDeck ==
  /\ status = "running"
  /\ \E R \in ShuffleLoop(m_original_cards, LoopStart(Len(m_original_cards))) :
       /\ swapsInRange' = R.inRange
       /\ \/ /\ R.fault = "none"
             /\ m_cards' = R.cards
             /\ status' = "running"
          \/ /\ R.fault # "none"
             /\ m_cards' = m_cards
             /\ status' \in FaultOutcomes(R.fault)
  /\ op' = "shuffle"
  /\ resetRun' = 0
  /\ ret' = nullptr
  /\ shuffled' = TRUE
  /\ UNCHANGED << m_original_cards, dealt, nulls, epoch >>
  /\ UNCHANGED << decks, srand_calls, cmp >>

\* Deck::shuffle
shuffle ==
  /\ status = "running"
  /\ \E R \in ShuffleLoop(m_cards, LoopStart(Len(m_cards))) :
       /\ swapsInRange' = R.inRange
       /\ \/ /\ R.fault = "none"
             /\ m_cards' = R.cards
             /\ status' = "running"
          \/ /\ R.fault # "none"
             /\ m_cards' = m_cards
             /\ status' \in FaultOutcomes(R.fault)
  /\ op' = "shuffle"
  /\ resetRun' = 0
  /\ ret' = nullptr
  /\ shuffled' = TRUE
  /\ UNCHANGED << m_original_cards, dealt, nulls, epoch >>
  /\ UNCHANGED << decks, srand_calls, cmp >>

\* deal_card that throws on an empty deck instead of returning nullptr: the
\* uncaught exception ends the process through std::terminate (SIGABRT)
deal_card_ThrowsOnEmpty ==
  /\ status = "running"
  /\ IF Len(m_cards) > 0
     THEN /\ ret' = Ptr(Back(m_cards))
          /\ m_cards' = PopBack(m_cards)
          /\ dealt' = Append(dealt, Back(m_cards))
          /\ nulls' = nulls
          /\ status' = status
     ELSE /\ ret' = nullptr
          /\ m_cards' = m_cards
          /\ dealt' = dealt
          /\ nulls' = nulls
          /\ status' = "sigabrt"
  /\ op' = "deal"
  /\ resetRun' = 0
  /\ UNCHANGED << m_original_cards, epoch, shuffled, swapsInRange >>
  /\ UNCHANGED << decks, srand_calls, cmp >>

\* deal_card with the test m_cards.size() > 1: the last card is never dealt
deal_card_KeepsLast ==
  /\ status = "running"
  /\ IF Len(m_cards) > 1
     THEN /\ ret' = Ptr(Back(m_cards))
          /\ m_cards' = PopBack(m_cards)
          /\ dealt' = Append(dealt, Back(m_cards))
          /\ nulls' = nulls
     ELSE /\ nulls < MaxNullDeals
          /\ ret' = nullptr
          /\ m_cards' = m_cards
          /\ dealt' = dealt
          /\ nulls' = nulls + 1
  /\ op' = "deal"
  /\ resetRun' = 0
  /\ UNCHANGED << m_original_cards, status, epoch, shuffled, swapsInRange >>
  /\ UNCHANGED << decks, srand_calls, cmp >>

\* deal_card that deals from the front: m_cards.front(), erase(begin())
deal_card_FromFront ==
  /\ status = "running"
  /\ IF Len(m_cards) > 0
     THEN /\ ret' = Ptr(m_cards[1])
          /\ m_cards' = SubSeq(m_cards, 2, Len(m_cards))
          /\ dealt' = Append(dealt, m_cards[1])
          /\ nulls' = nulls
     ELSE /\ nulls < MaxNullDeals
          /\ ret' = nullptr
          /\ m_cards' = m_cards
          /\ dealt' = dealt
          /\ nulls' = nulls + 1
  /\ op' = "deal"
  /\ resetRun' = 0
  /\ UNCHANGED << m_original_cards, status, epoch, shuffled, swapsInRange >>
  /\ UNCHANGED << decks, srand_calls, cmp >>

\* Deck::deal_card
deal_card ==
  /\ status = "running"
  /\ IF Len(m_cards) > 0
     THEN /\ ret' = Ptr(Back(m_cards))
          /\ m_cards' = PopBack(m_cards)
          /\ dealt' = Append(dealt, Back(m_cards))
          /\ nulls' = nulls
     ELSE /\ nulls < MaxNullDeals
          /\ ret' = nullptr
          /\ m_cards' = m_cards
          /\ dealt' = dealt
          /\ nulls' = nulls + 1
  /\ op' = "deal"
  /\ resetRun' = 0
  /\ UNCHANGED << m_original_cards, status, epoch, shuffled, swapsInRange >>
  /\ UNCHANGED << decks, srand_calls, cmp >>

\* reset that copies m_original_cards back to front (rbegin(), rend())
reset_Reversed ==
  /\ status = "running"
  /\ m_cards' = [k \in 1..Len(m_original_cards) |-> m_original_cards[Len(m_original_cards) + 1 - k]]
  /\ m_original_cards' = m_original_cards
  /\ op' = "reset"
  /\ resetRun' = IF resetRun < MaxResetRun THEN resetRun + 1 ELSE resetRun
  /\ ret' = nullptr
  /\ dealt' = << >>
  /\ nulls' = 0
  /\ epoch' = "reset"
  /\ shuffled' = FALSE
  /\ UNCHANGED << status, swapsInRange >>
  /\ UNCHANGED << decks, srand_calls, cmp >>

\* reset that inserts m_original_cards at the end of m_cards instead of assigning
reset_Appends ==
  /\ status = "running"
  /\ m_cards' = m_cards \o m_original_cards
  /\ m_original_cards' = m_original_cards
  /\ op' = "reset"
  /\ resetRun' = IF resetRun < MaxResetRun THEN resetRun + 1 ELSE resetRun
  /\ ret' = nullptr
  /\ dealt' = << >>
  /\ nulls' = 0
  /\ epoch' = "reset"
  /\ shuffled' = FALSE
  /\ UNCHANGED << status, swapsInRange >>
  /\ UNCHANGED << decks, srand_calls, cmp >>

\* reset that swaps the two vectors (std::swap) instead of copying
reset_Swaps ==
  /\ status = "running"
  /\ m_cards' = m_original_cards
  /\ m_original_cards' = m_cards
  /\ op' = "reset"
  /\ resetRun' = IF resetRun < MaxResetRun THEN resetRun + 1 ELSE resetRun
  /\ ret' = nullptr
  /\ dealt' = << >>
  /\ nulls' = 0
  /\ epoch' = "reset"
  /\ shuffled' = FALSE
  /\ UNCHANGED << status, swapsInRange >>
  /\ UNCHANGED << decks, srand_calls, cmp >>

\* reset that refills only an exhausted deck
reset_OnlyWhenEmpty ==
  /\ status = "running"
  /\ m_cards' = IF Len(m_cards) = 0 THEN m_original_cards ELSE m_cards
  /\ m_original_cards' = m_original_cards
  /\ op' = "reset"
  /\ resetRun' = IF resetRun < MaxResetRun THEN resetRun + 1 ELSE resetRun
  /\ ret' = nullptr
  /\ dealt' = << >>
  /\ nulls' = 0
  /\ epoch' = "reset"
  /\ shuffled' = FALSE
  /\ UNCHANGED << status, swapsInRange >>
  /\ UNCHANGED << decks, srand_calls, cmp >>

\* Deck::reset
reset ==
  /\ status = "running"
  /\ m_cards' = m_original_cards
  /\ op' = "reset"
  /\ resetRun' = IF resetRun < MaxResetRun THEN resetRun + 1 ELSE resetRun
  /\ ret' = nullptr
  /\ dealt' = << >>
  /\ nulls' = 0
  /\ epoch' = "reset"
  /\ shuffled' = FALSE
  /\ UNCHANGED << m_original_cards, status, swapsInRange >>
  /\ UNCHANGED << decks, srand_calls, cmp >>

Next == shuffle \/ deal_card \/ reset

Spec == Init /\ [][Next]_vars

\* Deck::Deck of a further Deck object of the process: it seeds the generator
\* and fills its own two vectors, which no call on this deck reads
Deck_Deck ==
  /\ status = "running"
  /\ decks < MaxDecks
  /\ decks' = decks + 1
  /\ srand_calls' = srand_calls + 1
  /\ UNCHANGED deckVars
  /\ UNCHANGED cmp

\* the calls of a process that constructs several decks
NextProcess == shuffle \/ deal_card \/ reset \/ Deck_Deck

SpecProcess == Init /\ [][NextProcess]_vars

\* a caller (an unordered container keyed by card) compares and hashes two
\* card handles with CardEqual and CardHash
card_compare ==
  /\ ~cmp.done
  /\ cmp' = Compare(cmp.lhs, cmp.rhs)
  /\ UNCHANGED deckVars
  /\ UNCHANGED procVars

\* a constructed deck and any two handles of Card objects
InitCard ==
  /\ DeckInit
  /\ \E lhs, rhs \in Handles : cmp = Pending(lhs, rhs)

NextCard == card_compare

SpecCard == InitCard /\ [][NextCard]_vars

\* ---- helpers of the properties -----------------------------------------
Range(s) == {s[k] : k \in 1..Len(s)}

NoDuplicates(s) == \A a, b \in 1..Len(s) : s[a] = s[b] => a = b

\* how often card c occurs in s
Count(s, c) == Cardinality({k \in 1..Len(s) : s[k] = c})

SameMultiset(s, t) ==
  /\ Len(s) = Len(t)
  /\ \A c \in Range(s) \cup Range(t) : Count(s, c) = Count(t, c)

AllCards == {Card(Suits[a], Values[b]) : a \in 1..NumSuits, b \in 1..NumValues}

TypeOK ==
  /\ m_cards \in Seq(AllCards)
  /\ status \in {"running", "sigfpe", "sigsegv"}
  /\ op \in {"construct", "shuffle", "deal", "reset"}
  /\ nulls \in 0..MaxNullDeals
  /\ epoch \in {"constructed", "reset"}
  /\ shuffled \in BOOLEAN
  /\ swapsInRange \in BOOLEAN

\* ---- properties --------------------------------------------------------

\* C1: a freshly constructed deck holds DeckSize (52) cards, no two with the
\* same (suit, value) pair, and every pair of a suit and a value exactly once.
C1_FreshDeckComplete ==
  op = "construct" =>
    /\ num_cards = DeckSize
    /\ NoDuplicates(m_cards)
    /\ \A a \in 1..NumSuits, b \in 1..NumValues :
         Count(m_cards, Card(Suits[a], Values[b])) = 1

C1_Witness ==
  /\ op = "construct"
  /\ Len(m_cards) = NumSuits * NumValues
  /\ Card(Suits[NumSuits], Values[NumValues]) \in Range(m_cards)

\* C2: on a deck that was never reset, with or without shuffles in between,
\* each of the first DeckSize (52) deal_card() calls returns a card that no
\* earlier call returned and takes exactly one off num_cards(); every call
\* after them returns nullptr and leaves num_cards() at 0.
C2_DealMonotonic ==
  /\ [](epoch = "constructed" =>
          /\ NoDuplicates(dealt)
          /\ Len(dealt) + num_cards = DeckSize
          /\ num_cards >= 0)
  /\ [][(op' = "deal" /\ epoch = "constructed") =>
          IF Len(dealt) < DeckSize
          THEN /\ ret' # nullptr
               /\ ret'[1] \notin Range(dealt)
               /\ Len(m_cards') = Len(m_cards) - 1
          ELSE /\ ret' = nullptr
               /\ Len(m_cards') = 0
               /\ Len(m_cards) = 0]_vars

C2_Witness ==
  /\ epoch = "constructed"
  /\ shuffled
  /\ op = "deal"
  /\ Len(dealt) = DeckSize
  /\ NoDuplicates(dealt)
  /\ nulls = 1
  /\ ret = nullptr

\* C3 as stated: reset() restores num_cards() to DeckSize (52), and the k-th
\* deal after it returns the k-th card the constructor built.
C3_ResetThenConstructionOrder ==
  /\ op = "reset" => num_cards = DeckSize
  /\ (epoch = "reset" /\ ~shuffled) =>
       \A k \in 1..Len(dealt) : dealt[k] = BuildDeck[k]

\* C3 amended: reset() restores num_cards() to DeckSize (52), and the k-th
\* deal after it returns the card the constructor built k-th from last, so
\* the deals run through the construction order backwards.
C3_ResetThenReverseOrder ==
  /\ op = "reset" => num_cards = DeckSize
  /\ (epoch = "reset" /\ ~shuffled) =>
       /\ Len(dealt) <= DeckSize
       /\ \A k \in 1..Len(dealt) : dealt[k] = BuildDeck[DeckSize + 1 - k]

C3_Witness ==
  /\ epoch = "reset"
  /\ ~shuffled
  /\ op = "deal"
  /\ Len(dealt) = DeckSize
  /\ dealt[1] = Card(Suits[NumSuits], Values[NumValues])
  /\ dealt[DeckSize] = Card(Club, Ace)

\* C4: every shuffle() call returns normally, with all swap indices in
\* 0 <= j <= i <= size - 1, and leaves num_cards() as it was.
C4_ShuffleCannotFail ==
  [][op' = "shuffle" =>
       /\ status' = "running"
       /\ swapsInRange'
       /\ Len(m_cards') = Len(m_cards)]_vars

\* C5: a shuffle() that returns leaves in m_cards the same cards as before,
\* each as often as before, keeps num_cards(), and brings back no card that
\* was dealt.
C5_ShufflePermutes ==
  [][(op' = "shuffle" /\ status' = "running") =>
       /\ SameMultiset(m_cards', m_cards)
       /\ Len(m_cards') = Len(m_cards)
       /\ Range(m_cards') \cap Range(dealt') = {}]_vars

C5_Witness ==
  /\ op = "shuffle"
  /\ status = "running"
  /\ Len(dealt) > 0
  /\ Len(m_cards) >= 2
  /\ m_cards # SubSeq(m_original_cards, 1, Len(m_cards))

\* C6: deal_card() on an empty m_cards returns nullptr, raises nothing, and
\* leaves m_cards empty and m_original_cards as it was, call after call.
C6_DealOnEmpty ==
  [][(op' = "deal" /\ Len(m_cards) = 0) =>
       /\ ret' = nullptr
       /\ status' = "running"
       /\ m_cards' = << >>
       /\ m_original_cards' = m_original_cards]_vars

C6_Witness ==
  /\ op = "deal"
  /\ ret = nullptr
  /\ nulls = MaxNullDeals
  /\ status = "running"
  /\ Len(m_cards) = 0

\* C7: in every reachable state m_cards has no card twice, holds only cards
\* of m_original_cards, and has at most DeckSize (52) elements.
C7_LiveIsSubsetOfOriginal ==
  /\ NoDuplicates(m_cards)
  /\ Range(m_cards) \subseteq Range(m_original_cards)
  /\ Len(m_cards) <= DeckSize

C7_Witness ==
  /\ epoch = "reset"
  /\ op = "shuffle"
  /\ status = "running"
  /\ Len(dealt) > 0
  /\ Len(m_cards) >= 2
  /\ \E k \in 1..Len(m_cards) : m_cards[k] # m_original_cards[k]

\* C8: no shuffle, deal or reset changes m_original_cards, which stays the
\* sequence the constructor built.
C8_OriginalNeverChanges ==
  /\ [](m_original_cards = BuildDeck)
  /\ [][m_original_cards' = m_original_cards]_vars

C8_Witness ==
  /\ epoch = "reset"
  /\ shuffled
  /\ op = "deal"
  /\ Len(dealt) > 0
  /\ m_cards # SubSeq(m_original_cards, 1, Len(m_cards))
  /\ m_original_cards = BuildDeck

\* C9: deal_card() on a non-empty m_cards returns the element at the last
\* index, removes that element only, and leaves the others where they were.
C9_DealTakesBack ==
  [][(op' = "deal" /\ Len(m_cards) > 0) =>
       /\ ret' = Ptr(m_cards[Len(m_cards)])
       /\ Len(m_cards') = Len(m_cards) - 1
       /\ \A k \in 1..(Len(m_cards) - 1) : m_cards'[k] = m_cards[k]]_vars

C9_Witness ==
  /\ op = "deal"
  /\ shuffled
  /\ ret # nullptr
  /\ Len(m_cards) >= 1
  /\ Len(dealt) >= 2

\* C10: after reset() m_cards equals m_original_cards element for element, so
\* the deck is in the state the constructor leaves; a second reset() right
\* after the first changes nothing.
C10_ResetRestoresConstructed ==
  /\ [](op = "reset" =>
          /\ m_cards = m_original_cards
          /\ << m_cards, m_original_cards >> = << BuildDeck, BuildDeck >>
          /\ num_cards = DeckSize)
  /\ [][(op = "reset" /\ op' = "reset") =>
          /\ m_cards' = m_cards
          /\ m_original_cards' = m_original_cards]_vars

C10_Witness ==
  /\ op = "reset"
  /\ resetRun = MaxResetRun
  /\ m_cards = m_original_cards
  /\ Len(m_cards) = DeckSize

\* C11: a constructed deck counts DeckSize (52); a deal right after the
\* construction or after a reset returns a card and leaves DeckSize - 1;
\* every deal while fewer than DeckSize cards are out returns a card, so
\* DeckSize deals bring the count to 0; the deal after them returns nullptr;
\* reset() brings the count back to DeckSize.
C11_Lifecycle ==
  /\ [](op \in {"construct", "reset"} => num_cards = DeckSize)
  /\ [](Len(dealt) = DeckSize => num_cards = 0)
  /\ [][(op' = "deal" /\ op \in {"construct", "reset"}) =>
          /\ ret' # nullptr
          /\ Len(m_cards') = DeckSize - 1]_vars
  /\ [][op' = "deal" =>
          IF Len(dealt) < DeckSize
          THEN ret' # nullptr /\ Len(dealt') = Len(dealt) + 1
          ELSE ret' = nullptr /\ Len(m_cards') = 0]_vars

C11_Witness ==
  /\ epoch = "reset"
  /\ ~shuffled
  /\ op = "deal"
  /\ ret # nullptr
  /\ Len(dealt) = 1
  /\ num_cards = DeckSize - 1

Factorial(n) == IF n <= 1 THEN 1 ELSE LET F[k \in 1..n] == IF k = 1 THEN 1 ELSE k * F[k - 1] IN F[n]

\* the number of index sequences (j for i = n - 1, ..., j for i = 1) the loop
\* can draw on n cards
NumIndexSeqs(n) ==
  IF n <= 1 THEN 1
  ELSE LET P[i \in 1..(n - 1)] ==
             IF i = 1 THEN Cardinality(Indices(1))
             ELSE Cardinality(Indices(i)) * P[i - 1]
       IN P[n - 1]

DrawCount(i, j) == Cardinality({r \in 0..RandMax : RandIndex(r, i) = j})

\* C13: in every iteration of a shuffle, each index of 0..i is drawn for the
\* same number of the values of rand().
C13_IndexUniform ==
  [][op' = "shuffle" =>
       \A i \in 1..(Len(m_cards) - 1) :
         \A a, b \in 0..i : DrawCount(i, a) = DrawCount(i, b)]_vars

\* C14: Card::operator== and CardEqual return true exactly when suit and
\* value of the two cards match, and two handles that CardEqual calls equal
\* have the same CardHash.
C14_EqualityStructural ==
  cmp.done =>
    LET same == /\ cmp.lhs.card.m_suit = cmp.rhs.card.m_suit
                /\ cmp.lhs.card.m_value = cmp.rhs.card.m_value
    IN /\ cmp.op_equal <=> same
       /\ cmp.handle_equal <=> same
       /\ cmp.handle_equal => cmp.hash_lhs = cmp.hash_rhs

C14_Witness ==
  /\ cmp.done
  /\ cmp.handle_equal
  /\ cmp.lhs.obj # cmp.rhs.obj
  /\ cmp.lhs.card = Card(Spade, King)
  /\ cmp.hash_lhs = cmp.hash_rhs

\* C15: once the generator is seeded by the construction of the deck, no
\* later operation of the process calls srand() again.
C15_SeededOnce ==
  [][srand_calls' = srand_calls]_vars

\* C16: num_cards() is DeckSize (52) minus the number of cards dealt since
\* the construction or the latest reset; only a deal from a non-empty deck
\* (minus 1) and reset() (back to DeckSize) change it; the deck is empty only
\* when DeckSize cards are out.
C16_CountIsDeckMinusDealt ==
  /\ [](num_cards = DeckSize - Len(dealt))
  /\ [](num_cards = 0 <=> Len(dealt) = DeckSize)
  /\ [][Len(m_cards') # Len(m_cards) =>
          \/ /\ op' = "deal"
             /\ Len(m_cards) > 0
             /\ Len(m_cards') = Len(m_cards) - 1
          \/ /\ op' = "reset"
             /\ Len(m_cards') = DeckSize]_vars

C16_Witness ==
  /\ epoch = "reset"
  /\ shuffled
  /\ op = "deal"
  /\ nulls = 0
  /\ num_cards = 0
  /\ Len(dealt) = DeckSize

\* C17: between two resets no card is dealt twice: the cards dealt are all
\* different, none of them is in m_cards, a deal returns a card not dealt
\* before, and a shuffle brings none of them back into m_cards.
C17_NoCardDealtTwice ==
  /\ [](NoDuplicates(dealt) /\ Range(dealt) \cap Range(m_cards) = {})
  /\ [][(op' = "deal" /\ ret' # nullptr) =>
          /\ ret'[1] \notin Range(dealt)
          /\ ret'[1] \notin Range(m_cards')]_vars
  /\ [][op' = "shuffle" => Range(m_cards') \cap Range(dealt) = {}]_vars

C17_Witness ==
  /\ shuffled
  /\ op = "shuffle"
  /\ status = "running"
  /\ Len(dealt) >= 2
  /\ Len(m_cards) >= 2
  /\ Range(dealt) \cap Range(m_cards) = {}

\* C18: the card at 0-based index NumValues * s + (r - 1) of m_original_cards
\* (13 * s + (r - 1) in the program) has suit number s and rank r, and right
\* after construction m_cards equals m_original_cards element for element.
C18_ConstructionOrder ==
  /\ \A su \in 0..(NumSuits - 1), r \in 1..NumValues :
       m_original_cards[(NumValues * su + (r - 1)) + 1] = Card(su, r)
  /\ op = "construct" => m_cards = m_original_cards

C18_Witness ==
  /\ op = "construct"
  /\ m_cards = m_original_cards
  /\ m_original_cards[1] = Card(Club, Ace)
  /\ m_original_cards[NumValues + 1] = Card(Diamond, Ace)

\* C19: while the deck has not been shuffled since its construction or the
\* latest reset, the k-th deal returns the card at 0-based index DeckSize - k
\* of m_original_cards: the last card built first, the first card built last.
C19_UnshuffledDealsReverse ==
  ~shuffled =>
    \A k \in 1..Len(dealt) : dealt[k] = m_original_cards[(DeckSize - k) + 1]

C19_Witness ==
  /\ epoch = "constructed"
  /\ ~shuffled
  /\ Len(dealt) = DeckSize
  /\ dealt[1] = m_original_cards[DeckSize]
  /\ dealt[DeckSize] = Card(Club, Ace)

====
